---- MODULE Spec2Model ----
(***************************************************************************)
(* A model of the cache-poisoning audit of zizmor                          *)
(* (src/audit/cache_poisoning.rs): the publishing-scenario detector, the   *)
(* cache-usage evaluator and the loop of audit_normal_job that turns the   *)
(* steps of one job into an ordered list of findings.                      *)
(*                                                                         *)
(* Option<T> is a sequence of length at most one: None is <<>>, Some(x) is *)
(* <<x>>.  Text is a TLA+ string, taken apart character by character.      *)
(***************************************************************************)
EXTENDS Integers, Sequences, FiniteSets

VARIABLES trigger, steps, pc, scenario, idx, cache_usage, findings

vars == <<trigger, steps, pc, scenario, idx, cache_usage, findings>>

None == <<>>

Some(x) == <<x>>

----------------------------------------------------------------------------
(* Text helpers: the str methods the audit and its collaborators call.     *)

StartsWith(s, p) == Len(s) >= Len(p) /\ SubSeq(s, 1, Len(p)) = p

EndsWith(s, p) == Len(s) >= Len(p) /\ SubSeq(s, Len(s) - Len(p) + 1, Len(s)) = p

CharAt(s, i) == SubSeq(s, i, i)

IsWhitespace(c) == c \in {" ", "\t", "\n", "\r"}

RECURSIVE TrimStart(_)
TrimStart(s) ==
    IF Len(s) > 0 /\ IsWhitespace(CharAt(s, 1))
    THEN TrimStart(SubSeq(s, 2, Len(s)))
    ELSE s

RECURSIVE TrimEnd(_)
TrimEnd(s) ==
    IF Len(s) > 0 /\ IsWhitespace(CharAt(s, Len(s)))
    THEN TrimEnd(SubSeq(s, 1, Len(s) - 1))
    ELSE s

Trim(s) == TrimEnd(TrimStart(s))

\* The least i >= from with s[i] = c, or 0.
RECURSIVE Find(_, _, _)
Find(s, c, from) ==
    IF from > Len(s) THEN 0
    ELSE IF CharAt(s, from) = c THEN from
    ELSE Find(s, c, from + 1)

\* The greatest i <= from with s[i] = c, or 0.
RECURSIVE RFind(_, _, _)
RFind(s, c, from) ==
    IF from < 1 THEN 0
    ELSE IF CharAt(s, from) = c THEN from
    ELSE RFind(s, c, from - 1)

\* s cut at index at: <<before, Some(after)>>, or <<s, None>> when at is 0.
SplitOnceAt(s, at) ==
    IF at = 0 THEN <<s, None>>
    ELSE <<SubSeq(s, 1, at - 1), Some(SubSeq(s, at + 1, Len(s)))>>

\* str::rsplit_once: cut at the last c.
RSplitOnce(s, c) == SplitOnceAt(s, RFind(s, c, Len(s)))

\* str::split_once: cut at the first c.
SplitOnce(s, c) == SplitOnceAt(s, Find(s, c, 1))

\* The components after the first one: the second, and the rest if there is one.
SplitTail(first, tail) ==
    IF tail[2] = None THEN <<first, tail[1]>>
    ELSE <<first, tail[1], tail[2][1]>>

SplitHead(head) ==
    IF head[2] = None THEN <<head[1]>>
    ELSE SplitTail(head[1], SplitOnce(head[2][1], "/"))

\* str::splitn(3, '/'): at most three components, the third keeps its slashes.
SplitN3(s) == SplitHead(SplitOnce(s, "/"))

----------------------------------------------------------------------------
(* Collaborators of the audit: action coordinates, input values and the    *)
(* recogniser of unresolved expressions.                                   *)

\* The repository coordinate of owner/repo[/subpath] components and a ref.
RepositoryUses(components, git_ref) ==
    IF Len(components) < 2 THEN None
    ELSE Some([kind |-> "Repository",
               owner |-> components[1],
               repo |-> components[2],
               subpath |-> IF Len(components) = 3 THEN Some(components[3]) ELSE None,
               git_ref |-> git_ref])

\* path[@ref], cut at the last @.
FromCommon(split) == RepositoryUses(SplitN3(split[1]), split[2])

\* Uses::from_step: the coordinate of a `uses:` string.  A local path and a
\* reference without owner/repo give none, a docker image gives a Docker one.
FromStep(uses) ==
    IF StartsWith(uses, "./") THEN None
    ELSE IF StartsWith(uses, "docker://") THEN Some([kind |-> "Docker"])
    ELSE FromCommon(RSplitOnce(uses, "@"))

\* RepositoryUses::matches: the same action, whatever ref is pinned.
Matches(target_uses, well_known_uses) ==
    /\ target_uses.owner = well_known_uses.owner
    /\ target_uses.repo = well_known_uses.repo
    /\ target_uses.subpath = well_known_uses.subpath

\* EnvValue's Display: a string is itself, a boolean is "true" or "false".
ToString(value) ==
    IF value.kind = "Boolean"
    THEN (IF value.b THEN "true" ELSE "false")
    ELSE value.s

\* ExplicitExpr::from_curly: Some for text that, trimmed, is ${{ ... }}.
IsCurly(trimmed) == StartsWith(trimmed, "${{") /\ EndsWith(trimmed, "}}")

FromCurly(text) == IF ~IsCurly(Trim(text)) THEN None ELSE Some(text)

----------------------------------------------------------------------------
(* The registries.                                                         *)

Configurable(uses, control_input, control_value, caching_by_default) ==
    [kind |-> "Configurable",
     uses |-> FromStep(uses)[1],
     control_input |-> control_input,
     control_value |-> control_value,
     caching_by_default |-> caching_by_default]

NotConfigurable(uses) == [kind |-> "NotConfigurable", uses |-> FromStep(uses)[1]]

OptIn(name) == [kind |-> "OptIn", name |-> name]

OptOut(name) == [kind |-> "OptOut", name |-> name]

KNOWN_CACHE_AWARE_ACTIONS ==
    << Configurable("actions/cache", OptOut("lookup-only"), "Boolean", TRUE),
       Configurable("actions/setup-java", OptIn("cache"), "String", FALSE),
       Configurable("actions/setup-go", OptIn("cache"), "Boolean", TRUE),
       Configurable("actions/setup-node", OptIn("cache"), "String", FALSE),
       Configurable("actions/setup-python", OptIn("cache"), "String", FALSE),
       Configurable("actions/setup-dotnet", OptIn("cache"), "Boolean", FALSE),
       Configurable("astral-sh/setup-uv", OptOut("enable-cache"), "String", TRUE),
       Configurable("Swatinem/rust-cache", OptOut("lookup-only"), "Boolean", TRUE),
       Configurable("ruby/setup-ruby", OptIn("bundler-cache"), "Boolean", FALSE),
       Configurable("PyO3/maturin-action", OptIn("sccache"), "Boolean", FALSE),
       NotConfigurable("Mozilla-Actions/sccache-action") >>

KNOWN_PUBLISHER_ACTIONS ==
    << FromStep("pypa/gh-action-pypi-publish")[1],
       FromStep("rubygems/release-gem")[1],
       FromStep("jreleaser/release-action")[1],
       FromStep("goreleaser/goreleaser-action")[1],
       FromStep("softprops/action-gh-release")[1],
       FromStep("release-drafter/release-drafter")[1],
       FromStep("googleapis/release-please-action")[1],
       FromStep("docker/build-push-action")[1],
       FromStep("redhat-actions/push-to-registry")[1],
       FromStep("aws-actions/amazon-ecs-deploy-task-definition ")[1],
       FromStep("aws-actions/aws-cloudformation-github-deploy")[1],
       FromStep("Azure/aci-deploy")[1],
       FromStep("Azure/container-apps-deploy-action")[1],
       FromStep("Azure/functions-action")[1],
       FromStep("Azure/sql-action")[1],
       FromStep("cloudflare/wrangler-action")[1],
       FromStep("google-github-actions/deploy-appengine")[1],
       FromStep("google-github-actions/deploy-cloudrun")[1],
       FromStep("google-github-actions/deploy-cloud-functions")[1] >>

----------------------------------------------------------------------------
(* The publishing-scenario detector.                                       *)

\* Vec::contains on the events of a set-valued trigger.
Contains(events, event) == \E i \in 1..Len(events) : events[i] = event

TriggerUsedWhenPublishingArtifacts(t) ==
    CASE t.kind = "BareEvent" -> t.event = "release"
      [] t.kind = "BareEvents" -> Contains(t.events, "release")
      [] t.kind = "Events" ->
            IF t.push.kind = "Body" THEN t.push.tag_filters # None ELSE FALSE

\* Iterator::any over a registry of publishers: does an entry match?
AnyPublisherMatches(target_uses, publishers) ==
    \E p \in 1..Len(publishers) :
        /\ publishers[p].kind = "Repository"
        /\ Matches(target_uses, publishers[p])

\* `let Some(Uses::Repository(target_uses)) = step.uses() else { return false }`
IsPublisherUses(target) ==
    IF target = None \/ target[1].kind # "Repository" THEN FALSE
    ELSE AnyPublisherMatches(target[1], KNOWN_PUBLISHER_ACTIONS)

\* The closure of detected_well_known_publisher_step: is this step an
\* invocation of a repository action that a publisher entry matches?
IsWellKnownPublisherStep(step) ==
    IF step.body # "Uses" THEN FALSE
    ELSE IsPublisherUses(FromStep(step.uses))

\* Iterator::find over step indices: the first index in from..Len(ss) whose
\* step is a publisher step, if any.
RECURSIVE FindPublisher(_, _)
FindPublisher(ss, from) ==
    IF from > Len(ss) THEN None
    ELSE IF IsWellKnownPublisherStep(ss[from]) THEN Some(from)
    ELSE FindPublisher(ss, from + 1)

\* A faulty variant of detected_well_known_publisher_step: the last
\* publisher step instead of the first.
RECURSIVE FindPublisherBackwards(_, _)
FindPublisherBackwards(ss, from) ==
    IF from < 1 THEN None
    ELSE IF IsWellKnownPublisherStep(ss[from]) THEN Some(from)
    ELSE FindPublisherBackwards(ss, from - 1)

DetectedLastPublisherStep(ss) == FindPublisherBackwards(ss, Len(ss))

DetectedWellKnownPublisherStep(ss) == FindPublisher(ss, 1)

\* A faulty variant of the scenario of the publisher check: without a
\* publisher step the job is still taken for a publishing one.
UsingWellKnowPublisherActionOrTrigger(well_know_publisher) ==
    IF well_know_publisher = None
    THEN Some([kind |-> "UsingTypicalWorkflowTrigger"])
    ELSE Some([kind |-> "UsingWellKnowPublisherAction",
               step |-> well_know_publisher[1]])

\* `detected_well_known_publisher_step(steps)?` and the scenario bound to it.
UsingWellKnowPublisherAction(well_know_publisher) ==
    IF well_know_publisher = None THEN None
    ELSE Some([kind |-> "UsingWellKnowPublisherAction",
               step |-> well_know_publisher[1]])

IsJobPublishingArtifacts(t, ss) ==
    IF TriggerUsedWhenPublishingArtifacts(t)
    THEN Some([kind |-> "UsingTypicalWorkflowTrigger"])
    ELSE UsingWellKnowPublisherAction(DetectedWellKnownPublisherStep(ss))

----------------------------------------------------------------------------
(* The cache-usage evaluator.                                              *)

\* A faulty variant of evaluate_default_action_behaviour: the flag is ignored.
EvaluateDefaultAlwaysCaching(action) == Some("DefaultActionBehaviour")

EvaluateDefaultActionBehaviour(action) ==
    IF action.caching_by_default
    THEN Some("DefaultActionBehaviour")
    ELSE None

\* A faulty variant of the match on the declared value: a literal that is
\* no expression opts in whatever the shape of the control value.
ClassifyValueAnyLiteralOptsIn(value, action) ==
    IF value = "true" /\ action.control_value = "Boolean"
    THEN Some("DirectOptIn")
    ELSE IF value = "false" /\ action.control_value = "Boolean"
    THEN None
    ELSE IF FromCurly(value) = None
         THEN Some("DirectOptIn")
         ELSE Some("ConditionalOptIn")

\* The match on the text of the declared value.
ClassifyValue(value, action) ==
    IF value = "true" /\ action.control_value = "Boolean"
    THEN Some("DirectOptIn")
    ELSE IF value = "false" /\ action.control_value = "Boolean"
    THEN None
    ELSE IF FromCurly(value) = None
         THEN (IF action.control_value = "String" THEN Some("DirectOptIn") ELSE None)
         ELSE Some("ConditionalOptIn")

EvaluateUserDefinedOptIn(cache_control_input, env, action) ==
    IF cache_control_input \notin DOMAIN env THEN None
    ELSE ClassifyValue(ToString(env[cache_control_input]), action)

\* `env.keys().find(..)`: the key of env that is the control input, if any.
FindControlInput(env, controllable) ==
    IF controllable.control_input.name \in DOMAIN env
    THEN Some(controllable.control_input.name)
    ELSE None

\* A faulty variant of the polarity match: an opt-out input suppresses every
\* declared usage, the conditional one too.
ApplyPolarityToEveryUsage(declared_usage, controllable) ==
    IF controllable.control_input.kind = "OptIn" THEN declared_usage ELSE None

\* The declared usage against the polarity of the control input.
ApplyPolarity(declared_usage, controllable) ==
    IF declared_usage = Some("DirectOptIn")
    THEN (IF controllable.control_input.kind = "OptIn" THEN declared_usage ELSE None)
    ELSE declared_usage

\* The match on the control input found.
UsageOfControlInput(cache_control_input, env, controllable) ==
    IF cache_control_input = None
    THEN EvaluateDefaultActionBehaviour(controllable)
    ELSE ApplyPolarity(
             EvaluateUserDefinedOptIn(cache_control_input[1], env, controllable),
             controllable)

UsageOfControllableCaching(env, controllable) ==
    UsageOfControlInput(FindControlInput(env, controllable), env, controllable)

\* The closure of evaluate_cache_usage: does this registry entry match the
\* step?  target is Uses::from_step(target_step), which the closure computes
\* anew for every entry and which is the same for all of them.
IsKnownAction(action, target) ==
    IF action.uses.kind # "Repository" THEN FALSE
    ELSE IF target = None \/ target[1].kind # "Repository" THEN FALSE
    ELSE Matches(target[1], action.uses)

\* Iterator::find over a registry: the first entry that matches, if any.
RECURSIVE FindKnownAction(_, _, _)
FindKnownAction(actions, target, from) ==
    IF from > Len(actions) THEN None
    ELSE IF IsKnownAction(actions[from], target) THEN Some(actions[from])
    ELSE FindKnownAction(actions, target, from + 1)

\* The match on the registry entry found.
UsageOfKnownAction(known_action, env) ==
    IF known_action = None THEN None
    ELSE IF known_action[1].kind = "Configurable"
    THEN UsageOfControllableCaching(env, known_action[1])
    ELSE Some("AlwaysCache")

EvaluateCacheUsage(target_step, env) ==
    UsageOfKnownAction(
        FindKnownAction(KNOWN_CACHE_AWARE_ACTIONS, FromStep(target_step), 1), env)

----------------------------------------------------------------------------
(* The finding synthesizer.                                                *)

\* A faulty variant of the anchored key: always the action reference.
YamlKeyAlwaysUses(usage) == "uses"

YamlKey(usage) ==
    CASE usage = "AlwaysCache" -> "uses"
      [] usage = "DefaultActionBehaviour" -> "uses"
      [] usage = "DirectOptIn" -> "with"
      [] usage = "ConditionalOptIn" -> "with"

\* A faulty variant of the annotation: the two opt-in texts swapped.
AnnotationOptInsSwapped(usage) ==
    CASE usage = "AlwaysCache" -> "caching always restored here"
      [] usage = "DefaultActionBehaviour" -> "cache enabled by default here"
      [] usage = "DirectOptIn" -> "opt-in for caching might happen here"
      [] usage = "ConditionalOptIn" -> "opt-in for caching here"

Annotation(usage) ==
    CASE usage = "AlwaysCache" -> "caching always restored here"
      [] usage = "DefaultActionBehaviour" -> "cache enabled by default here"
      [] usage = "DirectOptIn" -> "opt-in for caching here"
      [] usage = "ConditionalOptIn" -> "opt-in for caching might happen here"

\* A location: the workflow (step 0) or the step at an index, the key it is
\* narrowed to, its annotation and whether it is the primary one.
WorkflowLocation(key, annotation) ==
    [of |-> "workflow", step |-> 0, keys |-> <<key>>,
     annotation |-> annotation, primary |-> FALSE]

StepLocation(i, key, annotation, primary) ==
    [of |-> "step", step |-> i, keys |-> <<key>>,
     annotation |-> annotation, primary |-> primary]

\* The finding built for step i under the scenario sc, given its cache usage.
BuildFinding(i, sc, usage) ==
    IF sc.kind = "UsingTypicalWorkflowTrigger"
    THEN [confidence |-> "Low",
          severity |-> "High",
          locations |->
            << WorkflowLocation("on",
                 "generally used when publishing artifacts generated at runtime"),
               StepLocation(i, YamlKey(usage), Annotation(usage), TRUE) >>]
    ELSE [confidence |-> "Low",
          severity |-> "High",
          locations |->
            << StepLocation(sc.step, "uses",
                 "runtime artifacts usually published here", FALSE),
               StepLocation(i, YamlKey(usage), Annotation(usage), TRUE) >>]

\* The cache usage uses_cache_aware_step computes for a step: none for a step
\* that is no action invocation.
StepCacheUsage(step) ==
    IF step.body # "Uses" THEN None
    ELSE EvaluateCacheUsage(step.uses, step.with)

\* `let cache_usage = self.evaluate_cache_usage(uses, with)?` and the finding.
FindingOfUsage(i, sc, usage) ==
    IF usage = None THEN None ELSE Some(BuildFinding(i, sc, usage[1]))

UsesCacheAwareStep(i, step, sc) == FindingOfUsage(i, sc, StepCacheUsage(step))

\* A faulty variant of the push: the finding is put in front.
PushFront(fs, finding) == <<finding>> \o fs

\* findings.push(finding)
Push(fs, finding) == Append(fs, finding)

\* `if let Some(finding) = .. { findings.push(finding); }`
PushIfSome(fs, finding) == IF finding = None THEN fs ELSE Push(fs, finding[1])

----------------------------------------------------------------------------
(* The inputs: triggers, input values, steps and jobs.                     *)

MaxSteps == 3

MaxInputs == 2

Missing == [kind |-> "Missing"]

Default == [kind |-> "Default"]

PushBody(tag_filters, branch_filters) ==
    [kind |-> "Body", tag_filters |-> tag_filters, branch_filters |-> branch_filters]

BareEvent(event) == [kind |-> "BareEvent", event |-> event]

BareEvents(events) == [kind |-> "BareEvents", events |-> events]

Events(push, release) == [kind |-> "Events", push |-> push, release |-> release]

Triggers ==
    { BareEvent("release"),
      BareEvent("pull_request"),
      BareEvents(<<"push", "release">>),
      BareEvents(<<"push", "pull_request">>),
      Events(PushBody(Some(<<"v*">>), None), Missing),
      Events(PushBody(None, Some(<<"main">>)), Missing),
      Events(Default, Missing),
      Events(Missing, Default) }

EvalTriggers == { BareEvent("release"), BareEvent("pull_request") }

Str(s) == [kind |-> "String", s |-> s]

Bool(b) == [kind |-> "Boolean", b |-> b]

NoInputs == [k \in {} |-> Str("")]

Uses(uses, env) == [body |-> "Uses", uses |-> uses, with |-> env]

Run(script) == [body |-> "Run", run |-> script]

\* The steps a job is put together from: one for each verdict kind, two
\* publishers, and steps that are no cache-aware action invocation.
JobSteps ==
    { Uses("Mozilla-Actions/sccache-action@v0.0.9", NoInputs),
      Uses("actions/cache@v4", [k \in {"path"} |-> Str("~/.cargo")]),
      Uses("actions/setup-node@v4", [k \in {"cache"} |-> Str("npm")]),
      Uses("actions/setup-python@v5", [k \in {"cache"} |-> Str("${{ matrix.cache }}")]),
      Uses("pypa/gh-action-pypi-publish@release/v1", NoInputs),
      Uses("softprops/action-gh-release", NoInputs),
      Uses("actions/checkout@v4", NoInputs),
      Run("make dist") }

SeqsUpTo(S, n) == UNION { [1..m -> S] : m \in 0..n }

InputKeys == {"lookup-only", "cache", "enable-cache", "bundler-cache", "sccache"}

InputValues ==
    { Str("true"), Str("false"), Bool(TRUE), Bool(FALSE), Str("npm"), Str(""),
      Str("${{ matrix.cache }}"), Str(" ${{ inputs.cache }}\n") }

Envs(n) ==
    UNION { [keys -> InputValues] : keys \in { K \in SUBSET InputKeys : Cardinality(K) <= n } }

\* The action references the evaluator is run on: every registry entry with
\* a pinned ref, one without, a subpath of one, and references that are no
\* cache-aware repository action.
EvalUses ==
    { "actions/cache@v4", "actions/cache", "actions/setup-java@v4",
      "actions/setup-go@v5", "actions/setup-node@v4", "actions/setup-python@v5",
      "actions/setup-dotnet@v4", "astral-sh/setup-uv@v5", "Swatinem/rust-cache@v2",
      "ruby/setup-ruby@v1", "PyO3/maturin-action@v1",
      "Mozilla-Actions/sccache-action@v0.0.9", "actions/cache/restore@v4",
      "actions/checkout@v4", "./.github/actions/setup", "docker://alpine:3.8" }

----------------------------------------------------------------------------
(* audit_normal_job as a state machine.                                    *)

Init ==
    /\ trigger \in Triggers
    /\ steps \in SeqsUpTo(JobSteps, MaxSteps)
    /\ pc = "start"
    /\ scenario = None
    /\ idx = 1
    /\ cache_usage = None
    /\ findings = <<>>

\* One action invocation with any inputs, under a publishing and a
\* non-publishing trigger.
InitEval ==
    /\ trigger \in EvalTriggers
    /\ steps \in { <<Uses(u, env)>> : u \in EvalUses, env \in Envs(MaxInputs) }
    /\ pc = "start"
    /\ scenario = None
    /\ idx = 1
    /\ cache_usage = None
    /\ findings = <<>>

\* The scenario is established, or the job is returned without findings.
Detect ==
    /\ pc = "start"
    /\ scenario' = IsJobPublishingArtifacts(trigger, steps)
    /\ pc' = IF scenario' = None THEN "done" ELSE "loop"
    /\ UNCHANGED <<trigger, steps, idx, cache_usage, findings>>

\* One iteration of `for step in job.steps()`.
AuditStep ==
    /\ pc = "loop"
    /\ idx <= Len(steps)
    /\ findings' = PushIfSome(findings, UsesCacheAwareStep(idx, steps[idx], scenario[1]))
    /\ cache_usage' = StepCacheUsage(steps[idx])
    /\ idx' = idx + 1
    /\ UNCHANGED <<trigger, steps, pc, scenario>>

\* The loop is over: Ok(findings).
Return ==
    /\ pc = "loop"
    /\ idx > Len(steps)
    /\ pc' = "done"
    /\ UNCHANGED <<trigger, steps, scenario, idx, cache_usage, findings>>

Next == Detect \/ AuditStep \/ Return

Spec == Init /\ [][Next]_vars

SpecEval == InitEval /\ [][Next]_vars

----------------------------------------------------------------------------
(* Vocabulary of the properties.                                           *)

\* The trigger is a publishing trigger: a bare or set-valued trigger with
\* the release event, or a mapping whose push entry has tag filters.
ReleaseOrTagPush(t) ==
    \/ t.kind = "BareEvent" /\ t.event = "release"
    \/ t.kind = "BareEvents" /\ \E e \in 1..Len(t.events) : t.events[e] = "release"
    \/ t.kind = "Events" /\ t.push.kind = "Body" /\ t.push.tag_filters # None

\* The step invokes an action of the publisher registry, whatever its ref.
InvokesKnownPublisher(step) ==
    /\ step.body = "Uses"
    /\ LET target == FromStep(step.uses)
       IN  /\ target # None
           /\ target[1].kind = "Repository"
           /\ \E p \in 1..Len(KNOWN_PUBLISHER_ACTIONS) :
                 Matches(target[1], KNOWN_PUBLISHER_ACTIONS[p])

PublisherSteps == { i \in 1..Len(steps) : InvokesKnownPublisher(steps[i]) }

FirstPublisherStep == CHOOSE i \in PublisherSteps : \A j \in PublisherSteps : i <= j

\* The steps audited so far that have a cache-usage verdict.
VerdictSteps ==
    { i \in 1..(idx - 1) :
        steps[i].body = "Uses" /\ EvaluateCacheUsage(steps[i].uses, steps[i].with) # None }

\* The step a finding's cache anchor (its primary location) is on.
CacheAnchor(finding) == finding.locations[2]

TrustAnchor(finding) == finding.locations[1]

\* An action invocation has just been evaluated: it is the step before idx.
Evaluated == pc \in {"loop", "done"} /\ idx > 1 /\ steps[idx - 1].body = "Uses"

LastStep == steps[idx - 1]

\* The configurable descriptors of the registry that the last step matches.
Descriptors ==
    { n \in 1..Len(KNOWN_CACHE_AWARE_ACTIONS) :
        /\ KNOWN_CACHE_AWARE_ACTIONS[n].kind = "Configurable"
        /\ Evaluated
        /\ IsKnownAction(KNOWN_CACHE_AWARE_ACTIONS[n], FromStep(LastStep.uses)) }

Descriptor(n) == KNOWN_CACHE_AWARE_ACTIONS[n]

ControlPresent(n) == Descriptor(n).control_input.name \in DOMAIN LastStep.with

\* The text of the value declared for the control input.
ControlText(n) == ToString(LastStep.with[Descriptor(n).control_input.name])

\* The text is an unresolved expression, ${{ ... }}.
IsUnresolvedExpression(text) ==
    StartsWith(Trim(text), "${{") /\ EndsWith(Trim(text), "}}")

----------------------------------------------------------------------------
(* Properties of the audit of a job (specification Spec).                  *)

\* C1: a job whose trigger is no publishing trigger and none of whose steps
\* invokes a known publisher action has no scenario and gets no finding,
\* whatever cache-aware actions its steps invoke.
C1_NoScenarioNoFindings ==
    (~ReleaseOrTagPush(trigger) /\ PublisherSteps = {})
        => /\ findings = <<>>
           /\ pc # "start" => (scenario = None /\ pc = "done")

\* C1 witness: such a job has been audited to the end, one of its steps
\* restores a cache, and there is no finding.
C1_Witness ==
    /\ pc = "done"
    /\ ~ReleaseOrTagPush(trigger)
    /\ PublisherSteps = {}
    /\ \E i \in 1..Len(steps) :
          steps[i].body = "Uses" /\ EvaluateCacheUsage(steps[i].uses, steps[i].with) # None
    /\ findings = <<>>

\* C2: first match wins.  A publishing trigger gives the trigger-based
\* scenario whatever the steps; otherwise the scenario is bound to the first
\* step, in declaration order, that invokes a known publisher; otherwise
\* there is none.
C2_ScenarioPrecedence ==
    pc # "start" =>
        scenario =
            IF ReleaseOrTagPush(trigger)
            THEN Some([kind |-> "UsingTypicalWorkflowTrigger"])
            ELSE IF PublisherSteps # {}
            THEN Some([kind |-> "UsingWellKnowPublisherAction", step |-> FirstPublisherStep])
            ELSE None

\* C2 witness: two publisher steps under a non-publishing trigger, the
\* scenario bound to the earlier one.
C2_Witness ==
    /\ pc # "start"
    /\ ~ReleaseOrTagPush(trigger)
    /\ Cardinality(PublisherSteps) >= 2
    /\ scenario # None
    /\ scenario[1].kind = "UsingWellKnowPublisherAction"
    /\ \E j \in PublisherSteps : scenario[1].step < j

\* C7: under a scenario, the findings are, in order, one for each audited
\* action invocation with a cache-usage verdict and none for any other step:
\* their cache anchors are on exactly those steps, in increasing step order.
C7_OneFindingPerVerdictInOrder ==
    (pc \in {"loop", "done"} /\ scenario # None) =>
        /\ Len(findings) = Cardinality(VerdictSteps)
        /\ \A k \in 1..Len(findings) : CacheAnchor(findings[k]).step \in VerdictSteps
        /\ \A k, l \in 1..Len(findings) :
              k < l => CacheAnchor(findings[k]).step < CacheAnchor(findings[l]).step
        /\ pc = "done" => idx = Len(steps) + 1

\* C7 witness: a job audited to the end with two findings and, before the
\* step of the second one, a step that got none.
C7_Witness ==
    /\ pc = "done"
    /\ scenario # None
    /\ Len(findings) = 2
    /\ \E i \in 1..Len(steps) :
          i \notin VerdictSteps /\ i < CacheAnchor(findings[2]).step

\* C8: every finding has confidence low, severity high and exactly two
\* anchors: the trust-boundary anchor (the workflow's `on` for the
\* trigger-based scenario, the `uses` of the first publisher step for the
\* publisher-step-based one) and the cache anchor on the evaluated step, on
\* `uses` for always-active and active-by-default and on `with` for
\* direct-opt-in and conditional-opt-in.
C8_FindingShape ==
    \A k \in 1..Len(findings) :
        LET f == findings[k]
            s == CacheAnchor(f).step
            usage == EvaluateCacheUsage(steps[s].uses, steps[s].with)
        IN  /\ f.confidence = "Low"
            /\ f.severity = "High"
            /\ Len(f.locations) = 2
            /\ IF ReleaseOrTagPush(trigger)
               THEN TrustAnchor(f).of = "workflow" /\ TrustAnchor(f).keys = <<"on">>
               ELSE /\ TrustAnchor(f).of = "step"
                    /\ TrustAnchor(f).step = FirstPublisherStep
                    /\ TrustAnchor(f).keys = <<"uses">>
            /\ CacheAnchor(f).of = "step"
            /\ s \in 1..Len(steps)
            /\ steps[s].body = "Uses"
            /\ usage # None
            /\ usage[1] \in {"AlwaysCache", "DefaultActionBehaviour"}
                  => CacheAnchor(f).keys = <<"uses">>
            /\ usage[1] \in {"DirectOptIn", "ConditionalOptIn"}
                  => CacheAnchor(f).keys = <<"with">>

\* C8 witness: under the publisher-step-based scenario, one finding anchored
\* on `uses` and one anchored on `with`.
C8_Witness ==
    /\ pc = "done"
    /\ ~ReleaseOrTagPush(trigger)
    /\ \E k, l \in 1..Len(findings) :
          /\ CacheAnchor(findings[k]).keys = <<"uses">>
          /\ CacheAnchor(findings[l]).keys = <<"with">>

\* The annotations as the specification tabulates them.
TabulatedAnnotation(usage) ==
    CASE usage = "AlwaysCache" -> "caching is always restored here"
      [] usage = "DefaultActionBehaviour" -> "caching is enabled by default here"
      [] usage = "DirectOptIn" -> "caching is explicitly opted into here"
      [] usage = "ConditionalOptIn" ->
            "caching may be opted into here, depending on an unresolved expression"

\* The annotations the findings carry.
EmittedAnnotation(usage) ==
    CASE usage = "AlwaysCache" -> "caching always restored here"
      [] usage = "DefaultActionBehaviour" -> "cache enabled by default here"
      [] usage = "DirectOptIn" -> "opt-in for caching here"
      [] usage = "ConditionalOptIn" -> "opt-in for caching might happen here"

\* C9 as stated: the cache anchor's annotation is the tabulated text of the
\* verdict kind of its step.
C9_TabulatedAnnotations ==
    \A k \in 1..Len(findings) :
        LET s == CacheAnchor(findings[k]).step
        IN  CacheAnchor(findings[k]).annotation
                = TabulatedAnnotation(EvaluateCacheUsage(steps[s].uses, steps[s].with)[1])

\* C9 as amended: the cache anchor's annotation is determined by the verdict
\* kind of its step: "caching always restored here" for always-active,
\* "cache enabled by default here" for active-by-default, "opt-in for caching
\* here" for direct-opt-in and "opt-in for caching might happen here" for
\* conditional-opt-in.
C9_EmittedAnnotations ==
    \A k \in 1..Len(findings) :
        LET s == CacheAnchor(findings[k]).step
        IN  CacheAnchor(findings[k]).annotation
                = EmittedAnnotation(EvaluateCacheUsage(steps[s].uses, steps[s].with)[1])

\* C9 witness: a job with a direct-opt-in and a conditional-opt-in finding.
C9_Witness ==
    /\ pc = "done"
    /\ \E k, l \in 1..Len(findings) :
          /\ CacheAnchor(findings[k]).annotation = "opt-in for caching here"
          /\ CacheAnchor(findings[l]).annotation = "opt-in for caching might happen here"

----------------------------------------------------------------------------
(* Properties of the cache-usage evaluator (specification SpecEval): the   *)
(* verdict of one action invocation, for every registry entry and every    *)
(* input mapping.                                                          *)

\* C3: for a descriptor with opt-out polarity and boolean shape, the control
\* input "true" yields no verdict and the control input "false" yields the
\* default behaviour: active-by-default when the default-caching flag is set.
C3_OptOutBooleanLiteral ==
    \A n \in Descriptors :
        (/\ Descriptor(n).control_input.kind = "OptOut"
         /\ Descriptor(n).control_value = "Boolean"
         /\ ControlPresent(n))
            => /\ ControlText(n) = "true" => cache_usage = None
               /\ ControlText(n) = "false"
                     => cache_usage = IF Descriptor(n).caching_by_default
                                      THEN Some("DefaultActionBehaviour")
                                      ELSE None

\* C4: for a string-shape descriptor whose control input is present, "true"
\* gives a direct signal, "false" is an explicit opt-out (no signal, and no
\* verdict for an opt-in input), any other literal that is no expression
\* gives a direct signal, and an unresolved expression a conditional one.
C4_StringShapeClassification ==
    \A n \in Descriptors :
        (Descriptor(n).control_value = "String" /\ ControlPresent(n))
            => LET signal == EvaluateUserDefinedOptIn(
                                 Descriptor(n).control_input.name, LastStep.with,
                                 Descriptor(n))
               IN  /\ ControlText(n) = "true" => signal = Some("DirectOptIn")
                   /\ ControlText(n) = "false" => signal = None
                   /\ (ControlText(n) = "false"
                         /\ Descriptor(n).control_input.kind = "OptIn")
                         => cache_usage = None
                   /\ (ControlText(n) \notin {"true", "false"}
                         /\ ~IsUnresolvedExpression(ControlText(n)))
                         => signal = Some("DirectOptIn")
                   /\ IsUnresolvedExpression(ControlText(n))
                         => signal = Some("ConditionalOptIn")

\* C5: for a configurable descriptor, when no input key is the control-input
\* name, the verdict is active-by-default exactly if the default-caching
\* flag is set and there is none otherwise, whatever the other inputs are.
C5_AbsentControlInput ==
    \A n \in Descriptors :
        ~ControlPresent(n)
            => cache_usage = IF Descriptor(n).caching_by_default
                             THEN Some("DefaultActionBehaviour")
                             ELSE None

\* C5 witness: a default-off action evaluated with inputs that are not its
\* control input, and no verdict.
C5_Witness ==
    \E n \in Descriptors :
        /\ ~ControlPresent(n)
        /\ DOMAIN LastStep.with # {}
        /\ ~Descriptor(n).caching_by_default
        /\ cache_usage = None

\* C6: for a configurable descriptor of either polarity, either shape and
\* either default, a control input that is an unresolved expression yields
\* the conditional-opt-in verdict.
C6_ExpressionIsConditional ==
    \A n \in Descriptors :
        (ControlPresent(n) /\ IsUnresolvedExpression(ControlText(n)))
            => cache_usage = Some("ConditionalOptIn")

\* C6 witness: an opt-out, default-on action whose control input is an
\* expression, evaluated to conditional-opt-in.
C6_Witness ==
    \E n \in Descriptors :
        /\ ControlPresent(n)
        /\ IsUnresolvedExpression(ControlText(n))
        /\ Descriptor(n).control_input.kind = "OptOut"
        /\ Descriptor(n).caching_by_default
        /\ cache_usage = Some("ConditionalOptIn")

\* C10: for a boolean-shape descriptor with opt-in polarity whose control
\* input is present, the verdict is direct-opt-in for "true", none for
\* "false" and none for any other literal that is no expression, and it is
\* never active-by-default, even when the default-caching flag is set.
C10_BooleanOptInLiteral ==
    \A n \in Descriptors :
        (/\ Descriptor(n).control_input.kind = "OptIn"
         /\ Descriptor(n).control_value = "Boolean"
         /\ ControlPresent(n))
            => /\ ControlText(n) = "true" => cache_usage = Some("DirectOptIn")
               /\ ControlText(n) = "false" => cache_usage = None
               /\ (ControlText(n) \notin {"true", "false"}
                     /\ ~IsUnresolvedExpression(ControlText(n)))
                     => cache_usage = None
               /\ cache_usage # Some("DefaultActionBehaviour")

\* C10 witness: a default-on boolean opt-in action whose control input is a
\* literal that is neither "true" nor "false", and no verdict.
C10_Witness ==
    \E n \in Descriptors :
        /\ Descriptor(n).control_input.kind = "OptIn"
        /\ Descriptor(n).control_value = "Boolean"
        /\ Descriptor(n).caching_by_default
        /\ ControlPresent(n)
        /\ ControlText(n) \notin {"true", "false"}
        /\ ~IsUnresolvedExpression(ControlText(n))
        /\ cache_usage = None

====
